---- MODULE Spec2Model ----
(***************************************************************************)
(* A model of github_metrics.py: the Fetcher (make_request), the paginated *)
(* collectors (get_commits, get_pull_requests, get_org_repos), the         *)
(* snapshot built by fetch_data, the cache (save_cache / load_cache) and   *)
(* the aggregation of analyze_data.                                        *)
(*                                                                         *)
(* Conventions.  Python None is the record None; a value that may be None  *)
(* is Some(v) otherwise.  Timestamps are whole seconds (the resolution of  *)
(* the API's "%Y-%m-%dT%H:%M:%SZ" strings); durations are kept in seconds, *)
(* so "hours <= 30 * 24" reads "seconds <= 30 * 24 * 3600".                 *)
(***************************************************************************)
EXTENDS Integers, Sequences, FiniteSets, TLC

VARIABLES
    mr_pc,          \* make_request: "idle", "request", "sleep", "returned"
    mr_url,         \* make_request: the url argument
    mr_requests,    \* make_request: urls of the GETs issued by this call
    mr_responses,   \* make_request: responses received by this call
    mr_slept,       \* make_request: durations of the sleeps of this call
    mr_result,      \* make_request: the value returned
    col_kind,       \* collector: "idle", "commits" (get_commits), "pulls" (get_pull_requests)
    col_repo,       \* collector: the repo argument
    col_st,         \* collector: the loop's locals [page, items, done]
    col_requests,   \* collector: page numbers requested by this call, in order
    col_pages,      \* collector: what make_request returned for each of them
    or_pc,          \* get_org_repos: "idle", "loop", "done"
    or_world,       \* get_org_repos: the organization's listing on the server
    or_args,        \* get_org_repos: [since, target]
    or_st,          \* get_org_repos: the loop's locals [page, repos, found, missing, done]
    or_requests,    \* get_org_repos: page numbers requested by this call, in order
    or_pages,       \* get_org_repos: what make_request returned for each of them
    or_warning,     \* get_org_repos: the names of the warning of line 87, if printed
    or_result,      \* get_org_repos: the list returned
    fd_pc,          \* main / fetch_data: "idle", "org", "commits", "lists", "dora",
                    \*   "prs", "fetched", "saved", "analyzed"
    fd_i,           \* fetch_data: index in data['repos'] of the repository in hand
    fd_j,           \* fetch_data: index in its pull requests of the PR in hand
    world,          \* what the server holds during the run
    data,           \* fetch_data: the snapshot being built
    requests,       \* the requests fetch_data issued for the repositories
    failed,         \* how many of them make_request answered with None
    cache,          \* the cache files: org -> None or Some(JSON document)
    saved,          \* the snapshot last passed to save_cache, org -> None or Some
    ld,             \* the last load_cache call: [called, org, result]
    mn,             \* the call of main: its flags and the cache it found
    an              \* what analyze_data produced

fetcherVars == <<mr_pc, mr_url, mr_requests, mr_responses, mr_slept, mr_result>>

collectorVars == <<col_kind, col_repo, col_st, col_requests, col_pages>>

orgReposVars ==
    <<or_pc, or_world, or_args, or_st, or_requests, or_pages, or_warning, or_result>>

fetchVars == <<fd_pc, fd_i, fd_j, world, data, requests, failed>>

cacheVars == <<cache, saved, ld, mn>>

vars == <<fetcherVars, collectorVars, orgReposVars, fetchVars, cacheVars, an>>

---------------------------------------------------------------------------
(* Values *)

None == [some |-> FALSE]
Some(v) == [some |-> TRUE, val |-> v]

Max(a, b) == IF a >= b THEN a ELSE b
Min(a, b) == IF a <= b THEN a ELSE b

---------------------------------------------------------------------------
(* make_request, lines 20-43 *)

\* Most consecutive rate-limited responses the server gives to one call.
MaxRateLimited == 2

Urls == {"u1", "u2"}

\* remaining = -1: the response has no X-RateLimit-Remaining header.
\* reset_in: X-RateLimit-Reset minus time.time() when the response is handled.
\* perm / notfound: the body holds the permission / "Not Found" text.
HttpResponses ==
    { r \in [kind : {"http"}, status : {200, 403, 404, 500}, remaining : {-1, 0, 5},
             reset_in : {-3, 0, 2}, perm : BOOLEAN, notfound : BOOLEAN, body : {0, 1}] :
        /\ (r.reset_in # 0) => (r.status = 403 /\ r.remaining = 0)
        /\ r.perm => r.status = 403
        /\ r.notfound => r.status = 404
        /\ (r.body # 0) => r.status = 200 }

\* requests.get raised a RequestException.
ExcResponse ==
    [kind |-> "exc", status |-> 0, remaining |-> -1, reset_in |-> 0,
     perm |-> FALSE, notfound |-> FALSE, body |-> 0]

Responses == HttpResponses \cup {ExcResponse}

\* line 26
RateLimited(r) == r.kind = "http" /\ r.status = 403 /\ r.remaining = 0

\* A sleep for the time left to the reset, without the floor of 1.
SleepTimeNoFloor(r) == r.reset_in + 1

\* line 28
SleepTime(r) == Max(1, r.reset_in + 1)

\* A fetcher that gives up on a rate limit when the body also reads as a
\* permission error (the branches of lines 26 and 31 swapped).
HandleResponsePermFirst(r) ==
    IF r.kind = "exc" THEN [retry |-> FALSE, result |-> None]
    ELSE IF r.status = 200 THEN [retry |-> FALSE, result |-> Some(r.body)]
    ELSE IF r.status = 403 /\ r.perm THEN [retry |-> FALSE, result |-> None]
    ELSE IF RateLimited(r) THEN [retry |-> TRUE, result |-> None]
    ELSE [retry |-> FALSE, result |-> None]

\* A fetcher that also retries server errors.
HandleResponseRetry5xx(r) ==
    IF r.kind = "exc" THEN [retry |-> FALSE, result |-> None]
    ELSE IF r.status = 200 THEN [retry |-> FALSE, result |-> Some(r.body)]
    ELSE IF RateLimited(r) \/ r.status >= 500 THEN [retry |-> TRUE, result |-> None]
    ELSE [retry |-> FALSE, result |-> None]

\* lines 24-43: what one pass of the loop does with the response.
HandleResponse(r) ==
    IF r.kind = "exc" THEN [retry |-> FALSE, result |-> None]
    ELSE IF r.status = 200 THEN [retry |-> FALSE, result |-> Some(r.body)]
    ELSE IF RateLimited(r) THEN [retry |-> TRUE, result |-> None]
    ELSE IF r.status = 403 /\ r.perm THEN [retry |-> FALSE, result |-> None]
    ELSE IF r.status = 404 /\ r.notfound THEN [retry |-> FALSE, result |-> None]
    ELSE [retry |-> FALSE, result |-> None]

\* A caller enters make_request(url).
MakeRequestCall ==
    /\ mr_pc \in {"idle", "returned"}
    /\ \E u \in Urls : mr_url' = u
    /\ mr_pc' = "request"
    /\ mr_requests' = <<>>
    /\ mr_responses' = <<>>
    /\ mr_slept' = <<>>
    /\ mr_result' = None
    /\ UNCHANGED <<collectorVars, orgReposVars, fetchVars, cacheVars, an>>

\* One pass of the while loop: the GET of line 23 and the branch taken on its
\* outcome: return (lines 25, 33, 36, 40, 43) or go to the sleep of line 30.
MakeRequestAttempt ==
    /\ mr_pc = "request"
    /\ \E r \in Responses :
        /\ HandleResponse(r).retry => Len(mr_slept) < MaxRateLimited
        /\ mr_requests' = Append(mr_requests, mr_url)
        /\ mr_responses' = Append(mr_responses, r)
        /\ LET h == HandleResponse(r) IN
              /\ mr_pc' = IF h.retry THEN "sleep" ELSE "returned"
              /\ mr_result' = h.result
    /\ UNCHANGED <<mr_url, mr_slept>>
    /\ UNCHANGED <<collectorVars, orgReposVars, fetchVars, cacheVars, an>>

\* time.sleep(sleep_time), line 30, then the loop starts over.
MakeRequestSleep ==
    /\ mr_pc = "sleep"
    /\ mr_slept' = Append(mr_slept, SleepTime(mr_responses[Len(mr_responses)]))
    /\ mr_pc' = "request"
    /\ UNCHANGED <<mr_url, mr_requests, mr_responses, mr_result>>
    /\ UNCHANGED <<collectorVars, orgReposVars, fetchVars, cacheVars, an>>



---------------------------------------------------------------------------
(* The paginated collectors get_commits (lines 94-107) and                 *)
(* get_pull_requests (lines 124-137)                                       *)

\* per_page=100 in the urls of lines 98 and 128, and the tests of lines 103, 133.
PerPage == 100

\* The list behind an endpoint fills fewer than MaxPages pages.
MaxPages == 3

\* The items of page p when it holds n of them; an item is known by its
\* place in the listing.
PageItems(p, n) == [i \in 1..n |-> (p - 1) * PerPage + i]

\* What make_request may return for page p: None, or a list.
PageResults(p) ==
    {None} \cup { Some(PageItems(p, n)) :
                    n \in {0, 1, 2, PerPage - 1} \cup (IF p < MaxPages THEN {PerPage} ELSE {}) }

CollectorStart == [page |-> 1, items |-> <<>>, done |-> FALSE]

\* A loop that tests the page's length before it keeps the page.
GetCommitsStepDropsLast(st, resp) ==
    IF ~resp.some \/ Len(resp.val) = 0 \/ Len(resp.val) < PerPage
    THEN [st EXCEPT !.done = TRUE]
    ELSE [st EXCEPT !.items = st.items \o resp.val, !.page = st.page + 1]

\* get_commits, lines 99-105: one pass of the loop on make_request's result.
GetCommitsStep(st, resp) ==
    IF ~resp.some \/ Len(resp.val) = 0
    THEN [st EXCEPT !.done = TRUE]
    ELSE IF Len(resp.val) < PerPage
         THEN [st EXCEPT !.items = st.items \o resp.val, !.done = TRUE]
         ELSE [st EXCEPT !.items = st.items \o resp.val, !.page = st.page + 1]

\* get_pull_requests, lines 129-135.
GetPullRequestsStep(st, resp) ==
    IF ~resp.some \/ Len(resp.val) = 0
    THEN [st EXCEPT !.done = TRUE]
    ELSE IF Len(resp.val) < PerPage
         THEN [st EXCEPT !.items = st.items \o resp.val, !.done = TRUE]
         ELSE [st EXCEPT !.items = st.items \o resp.val, !.page = st.page + 1]

\* A caller enters get_commits or get_pull_requests (lines 95-96, 125-126).
CollectorCall ==
    /\ col_kind = "idle" \/ col_st.done
    /\ \E k \in {"commits", "pulls"} : col_kind' = k
    /\ \E r \in 1..3 : col_repo' = r
    /\ col_st' = CollectorStart
    /\ col_requests' = <<>>
    /\ col_pages' = <<>>
    /\ UNCHANGED <<fetcherVars, orgReposVars, fetchVars, cacheVars, an>>

\* One pass of the loop: the request for page col_st.page and what follows.
CollectorPage ==
    /\ col_kind # "idle"
    /\ ~col_st.done
    /\ \E resp \in PageResults(col_st.page) :
        /\ col_requests' = Append(col_requests, col_st.page)
        /\ col_pages' = Append(col_pages, resp)
        /\ col_st' = IF col_kind = "commits" THEN GetCommitsStep(col_st, resp)
                                             ELSE GetPullRequestsStep(col_st, resp)
    /\ UNCHANGED <<col_kind, col_repo>>
    /\ UNCHANGED <<fetcherVars, orgReposVars, fetchVars, cacheVars, an>>

---------------------------------------------------------------------------
(* get_org_repos, lines 45-92 *)

\* The cutoff of the runs, in seconds.
Since == 10000000

\* The repositories of an organization are known by their place in the
\* listing of the server (sort=pushed, direction=desc): repository i is on
\* page (i - 1) \div PerPage + 1.  recent = k >= 0: the first k repositories
\* were pushed at or after the cutoff, repository k exactly at it.
\* recent = -1: a listing out of order, every 7th repository is recent.
OrgSizes == {0, 3, PerPage, PerPage + 50, (MaxPages - 1) * PerPage + 5}

OrgWorlds == [n : OrgSizes, recent : {-1, 0, 2, 19, 20, 21, PerPage + 30}]

NoOrg == [n |-> 0, recent |-> 0]

PushedAt(w, i) ==
    IF w.recent = -1 THEN (IF i % 7 = 0 THEN Since + 1 ELSE Since - 1)
    ELSE Since + (w.recent - i)

Repo(w, i) == [name |-> i, pushed_at |-> PushedAt(w, i)]

\* Page p of the listing as the server holds it.
OrgPage(w, p) ==
    LET first == (p - 1) * PerPage
        n == Max(0, Min(PerPage, w.n - first))
    IN [i \in 1..n |-> Repo(w, first + i)]

\* target_repos: None, or Some(the names of --target-repos).
TargetChoices == {None, Some({}), Some({1, 2}), Some({2, PerPage + 1}), Some({2, 999})}

\* "if target_repos:", lines 50, 62, 86, 90.
Targeted(target) == target.some /\ target.val # {}

\* lines 46-52
OrgReposStart(target) ==
    [page |-> 1, repos |-> <<>>, found |-> {},
     missing |-> IF Targeted(target) THEN target.val ELSE {}, done |-> FALSE]

Names(repos) == { repos[i].name : i \in 1..Len(repos) }

\* A loop that goes on to the end of the listing after the last target
\* repository was found.
OrgReposStepKeepsLooking(st, resp, since, target) ==
    IF ~resp.some \/ Len(resp.val) = 0 THEN [st EXCEPT !.done = TRUE]
    ELSE LET Wanted(r) ==
                 (Targeted(target) => r.name \in target.val) /\ r.pushed_at >= since
             repos == st.repos \o SelectSeq(resp.val, Wanted)
             missing == IF Targeted(target) THEN st.missing \ Names(repos) ELSE st.missing
             stop == Len(resp.val) < PerPage \/ (~Targeted(target) /\ Len(repos) >= 20)
         IN [page |-> IF stop THEN st.page ELSE st.page + 1,
             repos |-> repos,
             found |-> IF Targeted(target) THEN Names(repos) ELSE st.found,
             missing |-> missing,
             done |-> stop]

\* lines 57-83: one pass of the loop on make_request's result.  pushed_at
\* and since are compared as strings, lines 63 and 78; both are modelled by
\* their second, and a pushed_at in the second of since is not less than it
\* ("Z" sorts after "." and after the end of the string).
OrgReposStep(st, resp, since, target) ==
    IF ~resp.some \/ Len(resp.val) = 0 THEN [st EXCEPT !.done = TRUE]
    ELSE IF Targeted(target)
    THEN LET Wanted(r) == r.name \in target.val /\ r.pushed_at >= since
             filtered == SelectSeq(resp.val, Wanted)
             missing == st.missing \ Names(filtered)
         IN [page |-> IF missing = {} \/ Len(resp.val) < PerPage THEN st.page ELSE st.page + 1,
             repos |-> st.repos \o filtered,
             found |-> st.found \cup Names(filtered),
             missing |-> missing,
             done |-> missing = {} \/ Len(resp.val) < PerPage]
    ELSE LET Pushed(r) == r.pushed_at >= since
             repos == st.repos \o SelectSeq(resp.val, Pushed)
         IN [page |-> IF Len(resp.val) < PerPage \/ Len(repos) >= 20 THEN st.page ELSE st.page + 1,
             repos |-> repos,
             found |-> st.found,
             missing |-> st.missing,
             done |-> Len(resp.val) < PerPage \/ Len(repos) >= 20]

\* line 86: the names warned about, if the warning is printed.
OrgReposWarning(st, target) ==
    IF Targeted(target) /\ st.missing # {} THEN Some(st.missing) ELSE None

\* A return without the cut to 20.
OrgReposReturnUncut(st, target) == st.repos

\* lines 90-92
OrgReposReturn(st, target) ==
    IF ~Targeted(target) THEN SubSeq(st.repos, 1, Min(20, Len(st.repos))) ELSE st.repos

\* A caller enters get_org_repos(org, since, target_repos).
OrgReposCall ==
    /\ fd_pc = "idle"
    /\ or_pc \in {"idle", "done"}
    /\ \E w \in OrgWorlds, t \in TargetChoices :
        /\ or_world' = w
        /\ or_args' = [since |-> Since, target |-> t]
        /\ or_st' = OrgReposStart(t)
    /\ or_pc' = "loop"
    /\ or_requests' = <<>>
    /\ or_pages' = <<>>
    /\ or_warning' = None
    /\ or_result' = <<>>
    /\ UNCHANGED <<fetcherVars, collectorVars, fetchVars, cacheVars, an>>

\* One pass of the loop of lines 54-83: the request for page or_st.page,
\* which make_request answers with the server's page or with None; when the
\* loop ends, the warning and the return of lines 86-92.
OrgReposPage ==
    /\ or_pc = "loop"
    /\ \E resp \in {None, Some(OrgPage(or_world, or_st.page))} :
        LET st == OrgReposStep(or_st, resp, or_args.since, or_args.target) IN
        /\ or_requests' = Append(or_requests, or_st.page)
        /\ or_pages' = Append(or_pages, resp)
        /\ or_st' = st
        /\ or_pc' = IF st.done THEN "done" ELSE "loop"
        /\ or_warning' = IF st.done THEN OrgReposWarning(st, or_args.target) ELSE None
        /\ or_result' = IF st.done THEN OrgReposReturn(st, or_args.target) ELSE <<>>
    /\ UNCHANGED <<or_world, or_args>>
    /\ UNCHANGED <<fetcherVars, collectorVars, fetchVars, cacheVars, an>>

---------------------------------------------------------------------------
(* The data the server holds for the repositories of a run *)

Hour == 3600

Logins == {"alice", "bob"}

\* Python dicts are functions; d[k] = v on a dict:
Put(d, k, v) == [x \in DOMAIN d \cup {k} |-> IF x = k THEN v ELSE d[x]]

EmptyDict == <<>>

\* A PR number or a workflow run id used as a dict key is an int in the
\* snapshot fetch_data builds; a key read back from JSON is the str of it.
IntKey(n) == [t |-> "int", n |-> n]
StrKey(n) == [t |-> "str", n |-> n]

\* author: the login of commit['author'], None for a null author;
\* date: commit['commit']['author']['date'].
Commit(sha, author, date) == [sha |-> sha, author |-> author, date |-> date]

\* merged_at is None for a PR that was not merged.
PullRequest(number, user, state, created, updated, merged, ref) ==
    [number |-> number, user |-> user, state |-> state, created_at |-> created,
     updated_at |-> updated, merged_at |-> merged, head_ref |-> ref]

\* The first commit of repository 1, drawn for a run.
CommitChoices ==
    { Commit("a1", a, d) : a \in {Some("alice"), Some("bob"), None},
                           d \in {Since - 1, Since, Since + Hour} }

DefaultX == Commit("a1", Some("bob"), Since + Hour)

\* The newest PR of repository 1 (number 2, head ref "f1"), drawn for a run:
\* when it was created, by whom, and what became of it.
PRFates == {"open", "closed", "merged9h", "merged720h", "merged720h1s"}

PRChoices ==
    [created : {Since - 1, Since, Since + Hour}, fate : PRFates, user : {Some("alice")}]
    \cup [created : {Since + Hour}, fate : {"open", "merged9h"}, user : {None}]

DefaultP == [created |-> Since + Hour, fate |-> "merged9h", user |-> Some("alice")]

MergedAt(p) ==
    IF p.fate = "merged9h" THEN Some(p.created + 9 * Hour)
    ELSE IF p.fate = "merged720h" THEN Some(p.created + 720 * Hour)
    ELSE IF p.fate = "merged720h1s" THEN Some(p.created + 720 * Hour + 1)
    ELSE None

NewestPR(p) ==
    LET m == MergedAt(p) IN
    PullRequest(2, p.user, IF p.fate = "open" THEN "open" ELSE "closed", p.created,
                IF m.some THEN m.val ELSE p.created, m, "f1")

\* The older PR of repository 1 (number 1), if any: merged from the same head
\* ref, open on the same head ref, or merged from another ref.
OlderKinds == {"none", "merged_same_ref", "open_same_ref", "merged_other_ref"}

OlderPR(q) ==
    IF q = "merged_same_ref"
    THEN <<PullRequest(1, Some("bob"), "closed", Since - 2 * Hour, Since - Hour,
                       Some(Since - Hour), "f1")>>
    ELSE IF q = "open_same_ref"
    THEN <<PullRequest(1, Some("bob"), "open", Since - 2 * Hour, Since + Hour, None, "f1")>>
    ELSE IF q = "merged_other_ref"
    THEN <<PullRequest(1, Some("bob"), "closed", Since + Hour, Since + 2 * Hour,
                       Some(Since + 2 * Hour), "f2")>>
    ELSE <<>>

\* The organization listing and the target list of the runs of main.
RunOrgs ==
    { [org |-> [n |-> 3, recent |-> 2], target |-> None],
      [org |-> [n |-> 3, recent |-> 2], target |-> Some({2, 999})],
      [org |-> [n |-> PerPage + 50, recent |-> 2], target |-> Some({1, 2})],
      [org |-> [n |-> PerPage + 50, recent |-> 1], target |-> Some({1, 2})],
      [org |-> [n |-> PerPage + 50, recent |-> 2], target |-> Some({2, 999})] }

\* The oldest commit on the page of commits reachable from a branch of
\* repository 1: 5 hours before the cutoff, or 2160 hours, or 2160 hours and
\* a second, before the merge of the default PR, or, on a branch that got a
\* page full of commits since, 2 hours after that merge.
FirstCommits == {"recent", "2160h", "2160h1s", "after_merge"}

FirstCommitDate(w) ==
    IF w.first = "2160h" THEN Since + 10 * Hour - 2160 * Hour
    ELSE IF w.first = "2160h1s" THEN Since + 10 * Hour - 2160 * Hour - 1
    ELSE IF w.first = "after_merge" THEN Since + 12 * Hour
    ELSE Since - 5 * Hour

\* The workflow runs of repository 1, drawn for a run of main.
RunKinds == {"one_ci", "all_done", "mixed", "fallback", "tie", "no_runs"}

DefaultOrg == [org |-> [n |-> 3, recent |-> 2], target |-> None]

DefaultWorld ==
    [org |-> DefaultOrg.org, target |-> DefaultOrg.target, flaky |-> FALSE,
     x |-> DefaultX, p |-> DefaultP, q |-> "none", first |-> "recent", runs |-> "one_ci"]

\* The runs: each varies one part of the default world.  flaky: requests of
\* this run may come back as None from make_request.
Worlds ==
    { [DefaultWorld EXCEPT !.org = o.org, !.target = o.target] : o \in RunOrgs }
    \cup { [DefaultWorld EXCEPT !.flaky = TRUE, !.q = q] :
               q \in {"none", "merged_same_ref", "open_same_ref"} }
    \cup { [DefaultWorld EXCEPT !.q = "open_same_ref", !.first = f] : f \in FirstCommits }
    \cup { [DefaultWorld EXCEPT !.runs = k] : k \in RunKinds }
    \cup { [DefaultWorld EXCEPT !.x = x] : x \in CommitChoices }
    \cup { [DefaultWorld EXCEPT !.p = pq[1], !.q = pq[2]] : pq \in PRChoices \X OlderKinds }

\* /repos/{org}/{repo}/commits
ServerCommits(w, repo) ==
    IF repo = 1 THEN <<w.x, Commit("a2", Some("alice"), Since + Hour)>>
    ELSE <<Commit("b1", Some("alice"), Since)>>

\* /repos/{org}/{repo}/commits/{sha}: the 'stats' of the commit.
ServerStats(w, repo, sha) ==
    IF sha = "a1" THEN [additions |-> 10, deletions |-> 1]
    ELSE [additions |-> 5, deletions |-> 2]

\* /repos/{org}/{repo}/branches and /contributors
ServerBranches(w, repo) == IF repo = 1 THEN <<"main", "f1">> ELSE <<"main">>

ServerContributors(w, repo) == IF repo = 1 THEN <<"alice", "bob">> ELSE <<"alice">>

\* /repos/{org}/{repo}/pulls?state=all, newest first.
ServerPulls(w, repo) ==
    IF repo = 1 THEN <<NewestPR(w.p)>> \o OlderPR(w.q)
    ELSE <<PullRequest(1, Some("bob"), "closed", Since, Since + Hour, Some(Since + Hour), "f1")>>

\* /pulls/{n}/reviews and /pulls/{n}/comments
ServerReviews(w, repo, number) ==
    IF repo = 1 /\ number = 2
    THEN <<[user |-> Some("bob"), submitted_at |-> Since + Hour],
           [user |-> None, submitted_at |-> Since + Hour]>>
    ELSE <<[user |-> Some("alice"), submitted_at |-> Since - 1]>>

ServerComments(w, repo, number) ==
    IF repo = 1 THEN <<[user |-> Some("bob"), created_at |-> Since]>> ELSE <<>>

\* /repos/{org}/{repo}/commits?sha={branch}&per_page=100: the dates of the
\* newest commits reachable from the branch, newest first.
ServerBranchCommits(w, repo, ref) == <<FirstCommitDate(w) + 7 * Hour, FirstCommitDate(w)>>

WorkflowRun(id, name, status, conclusion, created, updated) ==
    [id |-> id, name |-> name, status |-> status, conclusion |-> conclusion,
     created_at |-> created, updated_at |-> updated]

\* /repos/{org}/{repo}/actions/runs: the 'workflow_runs' of the answer,
\* newest first.  A run that is not completed has no conclusion ("none").
ServerRuns(w, repo) ==
    IF repo # 1 \/ w.runs = "no_runs" THEN <<>>
    ELSE IF w.runs = "one_ci"
    THEN <<WorkflowRun(8, "CI", "in_progress", "none", Since + 2 * Hour, Since + 2 * Hour),
           WorkflowRun(7, "CI", "completed", "success", Since + Hour, Since + Hour + 600)>>
    ELSE IF w.runs = "all_done"
    THEN <<WorkflowRun(8, "CI", "completed", "failure", Since + 2 * Hour, Since + 2 * Hour + 60),
           WorkflowRun(7, "ci", "completed", "success", Since, Since + 600),
           WorkflowRun(6, "CI", "completed", "success", Since - 1, Since + 300)>>
    ELSE IF w.runs = "mixed"
    THEN <<WorkflowRun(9, "Lint", "completed", "success", Since + 3 * Hour, Since + 3 * Hour + 60),
           WorkflowRun(8, "Deploy", "completed", "success", Since + 2 * Hour, Since + 2 * Hour + 900),
           WorkflowRun(7, "Lint", "completed", "failure", Since + 2 * Hour, Since + 2 * Hour + 60),
           WorkflowRun(6, "CI", "completed", "failure", Since + Hour, Since + Hour + 120),
           WorkflowRun(5, "Lint", "completed", "success", Since + Hour, Since + Hour + 60),
           WorkflowRun(4, "ci", "completed", "cancelled", Since + Hour, Since + Hour + 30)>>
    ELSE IF w.runs = "fallback"
    THEN <<WorkflowRun(8, "Docs", "completed", "success", Since + 2 * Hour, Since + 2 * Hour + 60),
           WorkflowRun(7, "Lint", "completed", "failure", Since + Hour, Since + Hour + 60),
           WorkflowRun(6, "", "completed", "success", Since + Hour, Since + Hour + 60),
           WorkflowRun(5, "lint", "completed", "success", Since + Hour, Since + Hour + 240)>>
    ELSE <<WorkflowRun(8, "Deploy", "completed", "success", Since + 2 * Hour, Since + 2 * Hour + 900),
           WorkflowRun(7, "CI", "completed", "failure", Since + Hour, Since + Hour + 120)>>

---------------------------------------------------------------------------
(* fetch_data, lines 203-329 *)

\* Most requests of one run that make_request answers with None.
MaxFailures == 1

Orgs == {"o1", "o2"}

\* lines 204-221
EmptyData ==
    [repos |-> <<>>, commits |-> EmptyDict, commit_stats |-> EmptyDict,
     branches |-> EmptyDict, contributors |-> EmptyDict, pull_requests |-> EmptyDict,
     pr_reviews |-> EmptyDict, pr_comments |-> EmptyDict,
     branch_first_commits |-> EmptyDict, workflow_runs |-> EmptyDict,
     workflow_run_details |-> EmptyDict, deployments |-> EmptyDict,
     releases |-> EmptyDict, tags |-> EmptyDict, issues |-> EmptyDict]

Req(kind, repo, key) == [kind |-> kind, repo |-> repo, key |-> key]

\* The sets of requests that may fail together in what is left of the run.
FailSets(w, nfailed, reqs) ==
    { F \in SUBSET reqs : Cardinality(F) <= (IF w.flaky THEN MaxFailures - nfailed ELSE 0) }

\* make_request on a request of the run: None if it fails, else the JSON.
Fetched(req, F, json) == IF req \in F THEN None ELSE Some(json)

ListPage(list, p) == SubSeq(list, (p - 1) * PerPage + 1, Min(p * PerPage, Len(list)))

\* get_commits, lines 94-107, on a listing of the server; the request for
\* page 1 fails if fail.
RECURSIVE GetCommitsLoop(_, _, _)
GetCommitsLoop(st, list, fail) ==
    IF st.done THEN st.items
    ELSE GetCommitsLoop(
             GetCommitsStep(st, IF fail /\ st.page = 1 THEN None
                                ELSE Some(ListPage(list, st.page))), list, fail)

\* get_pull_requests, lines 124-137.
RECURSIVE GetPullRequestsLoop(_, _, _)
GetPullRequestsLoop(st, list, fail) ==
    IF st.done THEN st.items
    ELSE GetPullRequestsLoop(
             GetPullRequestsStep(st, IF fail /\ st.page = 1 THEN None
                                     ELSE Some(ListPage(list, st.page))), list, fail)

\* get_issues, lines 187-201: the server holds no issue.
GetIssues(fail) == <<>>

\* get_commit_stats, lines 109-114.
GetCommitStats(w, repo, sha, F) ==
    LET commit_data == Fetched(Req("stats", repo, sha), F, [stats |-> ServerStats(w, repo, sha)])
    IN IF commit_data.some THEN Some(commit_data.val.stats) ELSE None

Shas(commits) == { commits[i].sha : i \in 1..Len(commits) }

\* lines 226-229 for the repository named repo; F: the requests that fail.
CommitRequests(w, repo, F) ==
    LET page == Req("commits", repo, "1")
        commits == GetCommitsLoop(CollectorStart, ServerCommits(w, repo), page \in F)
    IN {page} \cup { Req("stats", repo, sha) : sha \in Shas(commits) }

FetchCommits(d, w, repo, F) ==
    LET commits ==
            GetCommitsLoop(CollectorStart, ServerCommits(w, repo), Req("commits", repo, "1") \in F)
    IN [d EXCEPT !.commits = Put(@, repo, commits),
                 !.commit_stats =
                     Put(@, repo, [sha \in Shas(commits) |-> GetCommitStats(w, repo, sha, F)])]

\* lines 230-235: get_branches, get_contributors, get_pull_requests and the
\* three empty dicts.
ListRequests(w, repo, F) ==
    {Req("branches", repo, ""), Req("contributors", repo, ""), Req("pulls", repo, "1")}

FetchLists(d, w, repo, F) ==
    [d EXCEPT
       !.branches = Put(@, repo, Fetched(Req("branches", repo, ""), F, ServerBranches(w, repo))),
       !.contributors =
           Put(@, repo, Fetched(Req("contributors", repo, ""), F, ServerContributors(w, repo))),
       !.pull_requests =
           Put(@, repo, GetPullRequestsLoop(CollectorStart, ServerPulls(w, repo),
                                            Req("pulls", repo, "1") \in F)),
       !.pr_reviews = Put(@, repo, EmptyDict),
       !.pr_comments = Put(@, repo, EmptyDict),
       !.branch_first_commits = Put(@, repo, EmptyDict)]

\* The runs of a list that are completed, line 248.
CompletedRuns(runs) == { i \in 1..Len(runs) : runs[i].status = "completed" }

\* lines 238-284.  data['workflow_runs'][repo] is the dict of the answer,
\* [kind |-> "dict", runs |-> its 'workflow_runs']; when the answer is None
\* line 252 raises, and the handler of lines 253-256 stores the empty list,
\* [kind |-> "list"].
DoraRequests(w, repo, F) ==
    LET runs == ServerRuns(w, repo) IN
    {Req("runs", repo, ""), Req("deployments", repo, ""), Req("releases", repo, ""),
     Req("tags", repo, ""), Req("issues", repo, "1")}
    \cup (IF Req("runs", repo, "") \in F THEN {}
          ELSE { Req("run", repo, ToString(runs[i].id)) : i \in CompletedRuns(runs) })

FetchDora(d, w, repo, F) ==
    LET answer == Fetched(Req("runs", repo, ""), F, ServerRuns(w, repo))
        runs == IF answer.some THEN answer.val ELSE <<>>
        details ==
            [k \in { IntKey(runs[i].id) : i \in CompletedRuns(runs) } |->
                LET i == CHOOSE i \in CompletedRuns(runs) : runs[i].id = k.n
                IN Fetched(Req("run", repo, ToString(k.n)), F, runs[i])]
    IN [d EXCEPT
          !.workflow_runs =
              Put(@, repo, IF answer.some THEN [kind |-> "dict", runs |-> runs]
                           ELSE [kind |-> "list", runs |-> <<>>]),
          !.workflow_run_details = Put(@, repo, details),
          !.deployments = Put(@, repo, Fetched(Req("deployments", repo, ""), F, <<>>)),
          !.releases = Put(@, repo, Fetched(Req("releases", repo, ""), F, <<>>)),
          !.tags = Put(@, repo, Fetched(Req("tags", repo, ""), F, <<>>)),
          !.issues = Put(@, repo, GetIssues(Req("issues", repo, "1") \in F))]

\* get_branch_commits, lines 147-157: the last commit of the answer.
GetBranchCommits(w, repo, ref, F) ==
    LET commits == Fetched(Req("branch", repo, ref), F, ServerBranchCommits(w, repo, ref))
    IN IF commits.some /\ Len(commits.val) > 0
       THEN Some([placeholder |-> FALSE, date |-> commits.val[Len(commits.val)]])
       ELSE None

\* lines 296-327 for one PR of the repository.
PRRequests(w, repo, pr, F) ==
    {Req("reviews", repo, ToString(pr.number)), Req("comments", repo, ToString(pr.number))}
    \cup (IF pr.state = "open" THEN {Req("branch", repo, pr.head_ref)} ELSE {})

FetchPR(d, w, repo, pr, F) ==
    LET key == IntKey(pr.number)
        reviews == Fetched(Req("reviews", repo, ToString(pr.number)), F,
                           ServerReviews(w, repo, pr.number))
        comments == Fetched(Req("comments", repo, ToString(pr.number)), F,
                            ServerComments(w, repo, pr.number))
    IN [d EXCEPT
          !.pr_reviews[repo] = Put(@, key, reviews),
          !.pr_comments[repo] = Put(@, key, comments),
          !.branch_first_commits[repo] =
              IF pr.state = "open"
              THEN Put(@, pr.head_ref, GetBranchCommits(w, repo, pr.head_ref, F))
              ELSE IF pr.state = "closed" /\ pr.merged_at.some
              THEN Put(@, pr.head_ref, Some([placeholder |-> TRUE, date |-> pr.created_at]))
              ELSE @]

\* The repository in hand and its pull requests.
RepoInHand == data.repos[fd_i].name

PullsInHand == data.pull_requests[RepoInHand]

\* The worlds that differ from the default one in the listing of the
\* organization and the target list only.
TargetWorlds == { [DefaultWorld EXCEPT !.org = o.org, !.target = o.target] : o \in RunOrgs }

\* The calls main(org, months, repos_count, target_repos, use_cache,
\* update_cache) for organization "o1": every world without the flags, and
\* every combination of the flags in the worlds of TargetWorlds; the latter
\* only when a cache is there already.
MainCalls(cached) ==
    { c \in [w : Worlds, use_cache : BOOLEAN, update_cache : BOOLEAN] :
        \/ c.w \in TargetWorlds
        \/ ~cached.some /\ ~c.use_cache /\ ~c.update_cache }

NotCalled == [called |-> FALSE, use_cache |-> FALSE, update_cache |-> FALSE, old |-> None]

\* A main that takes the cache whenever --use-cache is given.
UsesCacheIgnoringUpdate(use_cache, update_cache, cached) == use_cache /\ cached.some

\* lines 741-743 and 767: main runs from the cache when use_cache is set,
\* update_cache is not and load_cache returns a snapshot; cached is the
\* cache file of the organization.
UsesCache(use_cache, update_cache, cached) == use_cache /\ ~update_cache /\ cached.some

\* main goes to line 767 with nothing from the cache and calls fetch_data(org,
\* since, target_repos), line 774; fetch_data enters get_org_repos, line 205.
\* If use_cache is set and update_cache is not, load_cache was called on the
\* way and returned None; nothing of that call is left when the fetch starts.
FetchDataCall ==
    /\ fd_pc = "idle"
    /\ or_pc = "idle"
    /\ \E c \in MainCalls(cache["o1"]) :
        /\ ~UsesCache(c.use_cache, c.update_cache, cache["o1"])
        /\ mn' = [called |-> TRUE, use_cache |-> c.use_cache,
                  update_cache |-> c.update_cache, old |-> cache["o1"]]
        /\ ld' = [called |-> FALSE, org |-> "o1", result |-> None]
        /\ world' = c.w
        /\ or_world' = c.w.org
        /\ or_args' = [since |-> Since, target |-> c.w.target]
        /\ or_st' = OrgReposStart(c.w.target)
    /\ or_pc' = "loop"
    /\ fd_pc' = "org"
    /\ data' = EmptyData
    /\ UNCHANGED <<or_requests, or_pages, or_warning, or_result>>
    /\ UNCHANGED <<fd_i, fd_j, requests, failed>>
    /\ UNCHANGED <<fetcherVars, collectorVars, cache, saved, an>>

\* get_org_repos returned: data['repos'] is set, line 205, and the loop of
\* line 223 starts, or fetch_data returns at once, line 329.
FetchDataRepos ==
    /\ fd_pc = "org"
    /\ or_pc = "done"
    /\ data' = [data EXCEPT !.repos = or_result]
    /\ fd_i' = 1
    /\ fd_pc' = IF Len(or_result) = 0 THEN "fetched" ELSE "commits"
    /\ UNCHANGED <<fd_j, world, requests, failed>>
    /\ UNCHANGED <<fetcherVars, collectorVars, orgReposVars, cacheVars, an>>

\* lines 224-229
FetchDataCommits ==
    /\ fd_pc = "commits"
    /\ \E F \in FailSets(world, failed, CommitRequests(world, RepoInHand, {})) :
        /\ F \subseteq CommitRequests(world, RepoInHand, F)
        /\ data' = FetchCommits(data, world, RepoInHand, F)
        /\ requests' = requests \cup CommitRequests(world, RepoInHand, F)
        /\ failed' = failed + Cardinality(F)
    /\ fd_pc' = "lists"
    /\ UNCHANGED <<fd_i, fd_j, world>>
    /\ UNCHANGED <<fetcherVars, collectorVars, orgReposVars, cacheVars, an>>

\* lines 230-235
FetchDataLists ==
    /\ fd_pc = "lists"
    /\ \E F \in FailSets(world, failed, ListRequests(world, RepoInHand, {})) :
        /\ data' = FetchLists(data, world, RepoInHand, F)
        /\ requests' = requests \cup ListRequests(world, RepoInHand, F)
        /\ failed' = failed + Cardinality(F)
    /\ fd_pc' = "dora"
    /\ UNCHANGED <<fd_i, fd_j, world>>
    /\ UNCHANGED <<fetcherVars, collectorVars, orgReposVars, cacheVars, an>>

\* What follows the PR at index j of the repository in hand, or the DORA
\* block when j = 0: the next PR, the next repository, or the return of
\* line 329.
AfterPR(j, npulls) ==
    IF j < npulls THEN [pc |-> "prs", i |-> fd_i, j |-> j + 1]
    ELSE IF fd_i < Len(data.repos) THEN [pc |-> "commits", i |-> fd_i + 1, j |-> 0]
    ELSE [pc |-> "fetched", i |-> fd_i, j |-> 0]

\* lines 238-293
FetchDataDora ==
    /\ fd_pc = "dora"
    /\ \E F \in FailSets(world, failed, DoraRequests(world, RepoInHand, {})) :
        /\ F \subseteq DoraRequests(world, RepoInHand, F)
        /\ data' = FetchDora(data, world, RepoInHand, F)
        /\ requests' = requests \cup DoraRequests(world, RepoInHand, F)
        /\ failed' = failed + Cardinality(F)
    /\ LET next == AfterPR(0, Len(PullsInHand)) IN
          /\ fd_pc' = next.pc
          /\ fd_i' = next.i
          /\ fd_j' = next.j
    /\ UNCHANGED world
    /\ UNCHANGED <<fetcherVars, collectorVars, orgReposVars, cacheVars, an>>

\* lines 295-327: one pass of the loop over the pull requests.
FetchDataPR ==
    /\ fd_pc = "prs"
    /\ LET pr == PullsInHand[fd_j] IN
       \E F \in FailSets(world, failed, PRRequests(world, RepoInHand, pr, {})) :
        /\ data' = FetchPR(data, world, RepoInHand, pr, F)
        /\ requests' = requests \cup PRRequests(world, RepoInHand, pr, F)
        /\ failed' = failed + Cardinality(F)
    /\ LET next == AfterPR(fd_j, Len(PullsInHand)) IN
          /\ fd_pc' = next.pc
          /\ fd_i' = next.i
          /\ fd_j' = next.j
    /\ UNCHANGED world
    /\ UNCHANGED <<fetcherVars, collectorVars, orgReposVars, cacheVars, an>>

---------------------------------------------------------------------------
(* save_cache and load_cache, lines 728-738 *)

\* json.dump writes every dict key as a string: str keys as they are, int
\* keys as their decimal digits.
JsonKeys(dict) ==
    [k \in { StrKey(x.n) : x \in DOMAIN dict } |->
        dict[CHOOSE x \in DOMAIN dict : x.n = k.n]]

\* A serializer that keeps the type of the keys (pickle, say).
JsonDumpKeepsKeys(d) == d

\* json.dump(data, f), line 731: the document written.  The dicts keyed by
\* repository name, sha and branch name have str keys; pr_reviews[repo],
\* pr_comments[repo] and workflow_run_details[repo] have int keys.
JsonDump(d) ==
    [d EXCEPT !.pr_reviews = [r \in DOMAIN @ |-> JsonKeys(@[r])],
              !.pr_comments = [r \in DOMAIN @ |-> JsonKeys(@[r])],
              !.workflow_run_details = [r \in DOMAIN @ |-> JsonKeys(@[r])]]

\* json.load(f), line 737: the document read, its keys strings.
JsonLoad(doc) == doc

\* save_cache(data, org) as main calls it, line 775.
SaveCache ==
    /\ fd_pc = "fetched"
    /\ cache' = [cache EXCEPT !["o1"] = Some(JsonDump(data))]
    /\ saved' = [saved EXCEPT !["o1"] = Some(data)]
    /\ fd_pc' = "saved"
    /\ UNCHANGED <<fd_i, fd_j, world, data, requests, failed, ld, mn, an>>
    /\ UNCHANGED <<fetcherVars, collectorVars, orgReposVars>>

\* load_cache(org), lines 733-738, before a call of main or after the save.
LoadCache ==
    /\ fd_pc \in {"idle", "saved"}
    /\ \E o \in Orgs :
        ld' = [called |-> TRUE, org |-> o,
               result |-> IF cache[o].some THEN Some(JsonLoad(cache[o].val)) ELSE None]
    /\ UNCHANGED <<cache, saved, mn, an>>
    /\ UNCHANGED <<fetcherVars, collectorVars, orgReposVars, fetchVars>>

\* get_org_repos, lines 45-92, when every request is answered.
RECURSIVE OrgReposLoop(_, _, _, _)
OrgReposLoop(st, org, since, target) ==
    IF st.done THEN OrgReposReturn(st, target)
    ELSE OrgReposLoop(OrgReposStep(st, Some(OrgPage(org, st.page)), since, target),
                      org, since, target)

\* lines 295-327 over the PRs of a repository, every request answered.
RECURSIVE FetchAllPRs(_, _, _, _)
FetchAllPRs(d, w, repo, prs) ==
    IF prs = <<>> THEN d
    ELSE FetchAllPRs(FetchPR(d, w, repo, Head(prs), {}), w, repo, Tail(prs))

\* lines 223-327 from the repository at index i on, every request answered.
RECURSIVE FetchAllRepos(_, _, _)
FetchAllRepos(d, w, i) ==
    IF i > Len(d.repos) THEN d
    ELSE LET repo == d.repos[i].name
             fetched == FetchDora(FetchLists(FetchCommits(d, w, repo, {}), w, repo, {}),
                                  w, repo, {})
         IN FetchAllRepos(FetchAllPRs(fetched, w, repo, fetched.pull_requests[repo]), w, i + 1)

\* fetch_data(org, since, target_repos), lines 203-329, in one piece.
FetchDataAll(w) ==
    FetchAllRepos([EmptyData EXCEPT
                     !.repos = OrgReposLoop(OrgReposStart(w.target), w.org, Since, w.target)],
                  w, 1)

\* The worlds of the runs of main that left a cache behind.
EarlierWorlds ==
    { [DefaultWorld EXCEPT !.x = Commit("a1", Some("alice"), Since),
                           !.p = [created |-> Since, fate |-> "merged720h",
                                  user |-> Some("bob")]],
      [DefaultWorld EXCEPT !.q = "merged_other_ref", !.runs = "all_done"] }

\* An earlier run of main for "o1" fetched and saved its snapshot, lines
\* 774-775; this is the cache file the next run finds.
EarlierRun ==
    /\ fd_pc = "idle"
    /\ ~cache["o1"].some
    /\ ~ld.called
    /\ \E w \in EarlierWorlds :
        /\ cache' = [cache EXCEPT !["o1"] = Some(JsonDump(FetchDataAll(w)))]
        /\ saved' = [saved EXCEPT !["o1"] = Some(FetchDataAll(w))]
    /\ UNCHANGED <<ld, mn, an>>
    /\ UNCHANGED <<fetcherVars, collectorVars, orgReposVars, fetchVars>>

\* line 748: the repositories of the cached snapshot named in target_repos,
\* when target_repos is given and not empty.
FilterRepos(d, target) ==
    IF Targeted(target)
    THEN LET Wanted(r) == r.name \in target.val
         IN [d EXCEPT !.repos = SelectSeq(@, Wanted)]
    ELSE d

\* main runs from the cache, lines 741-763: load_cache returned a snapshot,
\* use_cache stays set and the block of lines 767-776 is skipped.
MainFromCache ==
    /\ fd_pc = "idle"
    /\ \E c \in MainCalls(cache["o1"]) :
        /\ UsesCache(c.use_cache, c.update_cache, cache["o1"])
        /\ mn' = [called |-> TRUE, use_cache |-> c.use_cache,
                  update_cache |-> c.update_cache, old |-> cache["o1"]]
        /\ ld' = [called |-> TRUE, org |-> "o1", result |-> Some(JsonLoad(cache["o1"].val))]
        /\ world' = c.w
        /\ data' = FilterRepos(JsonLoad(cache["o1"].val), c.w.target)
    /\ fd_pc' = "cached"
    /\ UNCHANGED <<fd_i, fd_j, requests, failed, cache, saved, an>>
    /\ UNCHANGED <<fetcherVars, collectorVars, orgReposVars>>

---------------------------------------------------------------------------
(* analyze_data, lines 331-726: the workflow of each repository, lines
   362-398, the counters of lines 400-432, the deployment metrics of lines
   434-463 and the loop over the repositories of lines 468-557, then the two
   tables. *)

\* A timestamp of the API is the string "YYYY-MM-DDTHH:MM:SSZ", modelled by
\* its second.  since is start_date.isoformat(), lines 771 and 781:
\* "YYYY-MM-DDTHH:MM:SS.ffffff", or "YYYY-MM-DDTHH:MM:SS" when the
\* microsecond is 0; sec is its second, micro says the fraction is there.
SinceValues == [sec : {Since}, micro : BOOLEAN]

\* raw >= since on the strings, lines 495 and 528: equal up to the seconds,
\* "Z" sorts after "." and after the end of the string.
RawGE(t, since) == t >= since.sec

\* datetime.strptime(raw, ...).isoformat() >= since, lines 411-412, 516-519:
\* the left side is "YYYY-MM-DDTHH:MM:SS", a proper prefix of a since with a
\* fraction in the same second, and so less than it.
IsoGE(t, since) == t > since.sec \/ (t = since.sec /\ ~since.micro)

Get(d, k, default) == IF k \in DOMAIN d THEN d[k] ELSE default

\* c[k] += n on a defaultdict(int)
Add(c, k, n) == Put(c, k, Get(c, k, 0) + n)

\* A filter that counts reviews and comments of any date.
EntryCountedAnyDate(e, at, since) == e.user.some

\* lines 408-412 and 425-429: the review or comment has a user with a login
\* and its date, at, is not before since.
EntryCounted(e, at, since) == e.user.some /\ IsoGE(at, since)

\* lines 406-415 and 423-432 for one list of reviews or of comments.
RECURSIVE CountList(_, _, _, _)
CountList(c, list, kind, since) ==
    IF list = <<>> THEN c
    ELSE LET e == Head(list)
             at == IF kind = "reviews" THEN e.submitted_at ELSE e.created_at
         IN CountList(IF EntryCounted(e, at, since) THEN Add(c, e.user.val, 1) ELSE c,
                      Tail(list), kind, since)

\* lines 400-415 and 417-432: the loops over the repositories of the dict
\* that are in repo_names and over their PR keys; pairs is what is left.
RECURSIVE PreCount(_, _, _, _, _)
PreCount(c, dict, pairs, kind, since) ==
    IF pairs = {} THEN c
    ELSE LET pk == CHOOSE x \in pairs : TRUE
             got == dict[pk[1]][pk[2]]
             list == IF got.some THEN got.val ELSE <<>>
         IN PreCount(CountList(c, list, kind, since), dict, pairs \ {pk}, kind, since)

PreCountPairs(dict, repo_names) ==
    UNION { { <<r, k>> : k \in DOMAIN dict[r] } : r \in DOMAIN dict \cap repo_names }

\* A filter that leaves out the commit made in the second of since.
CommitCountedStrict(commit, since) == commit.date > since.sec /\ commit.author.some

\* lines 495-496
CommitCounted(commit, since) == RawGE(commit.date, since) /\ commit.author.some

\* lines 494-505
RECURSIVE AnalyzeCommits(_, _, _, _, _)
AnalyzeCommits(acc, d, since, repo, commits) ==
    IF commits = <<>> THEN acc
    ELSE LET commit == Head(commits)
             author == commit.author.val
             stats == Get(d.commit_stats[repo], commit.sha, None)
             next ==
                 IF CommitCounted(commit, since)
                 THEN [acc EXCEPT
                         !.commit_counts = Add(@, author, 1),
                         !.repos_worked_on = Put(@, author, Add(Get(@, author, EmptyDict), repo, 1)),
                         !.repo_activity = Add(@, repo, 1),
                         !.lines_added = IF stats.some THEN Add(@, author, stats.val.additions) ELSE @,
                         !.lines_deleted = IF stats.some THEN Add(@, author, stats.val.deletions) ELSE @]
                 ELSE acc
         IN AnalyzeCommits(next, d, since, repo, Tail(commits))

\* A filter that keeps every duration.
MergeTimeKeptAlways(seconds) == TRUE

\* line 532: merge_time_hours <= 30 * 24, the hours being seconds / 3600.
MergeTimeKept(seconds) == seconds <= 30 * 24 * Hour

\* A filter that keeps every branch lifetime.
BranchTimeKeptAlways(seconds) == TRUE

\* line 548
BranchTimeKept(seconds) == seconds <= 90 * 24 * Hour

\* A duration sample: seconds is the sample, 3600 times the hours the code
\* appends; repo and number name the PR it was computed from.
Sample(repo, pr, seconds) == [repo |-> repo, number |-> pr.number, seconds |-> seconds]

\* A filter that looks at created_at only.
PRCountedCreatedOnly(pr, since) == pr.user.some /\ IsoGE(pr.created_at, since)

\* lines 511 and 519
PRCounted(pr, since) ==
    pr.user.some /\ (IsoGE(pr.created_at, since) \/ IsoGE(pr.updated_at, since))

\* lines 510-555 for one PR.
AnalyzePR(acc, d, since, repo, pr) ==
    IF ~PRCounted(pr, since) THEN acc
    ELSE LET counted == [acc EXCEPT !.pr_counts = Add(@, pr.user.val, 1)] IN
         IF ~pr.merged_at.some THEN counted
         ELSE LET merged_at == pr.merged_at.val
                  merge_time == merged_at - pr.created_at
                  timed ==
                      IF IsoGE(pr.created_at, since) /\ RawGE(merged_at, since)
                         /\ MergeTimeKept(merge_time)
                      THEN [counted EXCEPT
                              !.pr_merge_times = Append(@, Sample(repo, pr, merge_time))]
                      ELSE counted
                  firsts == Get(d.branch_first_commits, repo, EmptyDict)
                  first_commit == Get(firsts, pr.head_ref, None)
                  branch_time == merged_at - first_commit.val.date
              IN IF first_commit.some /\ BranchTimeKept(branch_time)
                 THEN [timed EXCEPT
                         !.branch_to_merge_times = Append(@, Sample(repo, pr, branch_time)),
                         !.repo_branch_to_merge_times[repo] =
                             Append(@, Sample(repo, pr, branch_time))]
                 ELSE timed

RECURSIVE AnalyzePRs(_, _, _, _, _)
AnalyzePRs(acc, d, since, repo, prs) ==
    IF prs = <<>> THEN acc
    ELSE AnalyzePRs(AnalyzePR(acc, d, since, repo, Head(prs)), d, since, repo, Tail(prs))

\* sum(list) of the samples of a list, in seconds.
RECURSIVE SumSeconds(_)
SumSeconds(samples) ==
    IF samples = <<>> THEN 0 ELSE Head(samples).seconds + SumSeconds(Tail(samples))

\* The number num / den.
Ratio(num, den) == [num |-> num, den |-> den]

\* sum(merge_times) / len(merge_times) if merge_times else 0, lines 576-579,
\* in seconds.
AverageOrZero(samples) ==
    IF Len(samples) > 0 THEN Ratio(SumSeconds(samples), Len(samples)) ELSE Ratio(0, 1)

\* name.lower() on the run names of the worlds.
Lower(name) ==
    IF name = "CI" THEN "ci"
    ELSE IF name = "Lint" THEN "lint"
    ELSE IF name = "Deploy" THEN "deploy"
    ELSE IF name = "Docs" THEN "docs"
    ELSE name

\* An inference that prefers no name.
HasCIWordNever(name) == FALSE

\* line 378: 'ci' in name or 'test' in name or 'build' in name or 'deploy'
\* in name, on the lower-cased run names of the worlds.
HasCIWord(name) == name \in {"ci", "deploy"}

\* Counter(names).most_common(1)[0][0], lines 383-387 and 392-396: the name
\* with the highest count, the one met first among those that tie.
MostCommon(names) ==
    LET Count(n) == Cardinality({ i \in 1..Len(names) : names[i] = n })
        First(n) == CHOOSE i \in 1..Len(names) :
                        names[i] = n /\ \A k \in 1..(i - 1) : names[k] # n
        best == CHOOSE i \in 1..Len(names) :
                    /\ First(names[i]) = i
                    /\ \A j \in 1..Len(names) :
                          \/ Count(names[i]) > Count(names[j])
                          \/ Count(names[i]) = Count(names[j]) /\ i <= First(names[j])
    IN names[best]

\* lines 367-397 for the workflow_runs entry of one repository: the name in
\* specific_workflows, None when the repository gets no entry.
InferWorkflow(workflows) ==
    IF workflows.kind = "dict" /\ Len(workflows.runs) > 0
    THEN LET Named(run) == run.name # ""
             named == SelectSeq(workflows.runs, Named)
             workflow_names == [i \in 1..Len(named) |-> Lower(named[i].name)]
             ci_workflows == SelectSeq(workflow_names, HasCIWord)
         IN IF ci_workflows # <<>> THEN Some(MostCommon(ci_workflows))
            ELSE IF workflow_names # <<>> THEN Some(MostCommon(workflow_names))
            ELSE None
    ELSE None

\* lines 365-397
SpecificWorkflows(d, repo_names) ==
    [repo \in { r \in repo_names \cap DOMAIN d.workflow_runs :
                  InferWorkflow(d.workflow_runs[r]).some } |->
        InferWorkflow(d.workflow_runs[repo]).val]

\* lines 444-447: the run is one of the target workflow created at or after
\* since.
RunCounted(run, target, since) == Lower(run.name) = target /\ IsoGE(run.created_at, since)

\* lines 443-460 over the runs of one repository.  A duration sample is 60
\* times the minutes the code appends; run names the run it came from.
RECURSIVE CountRuns(_, _, _, _)
CountRuns(st, runs, target, since) ==
    IF runs = <<>> THEN st
    ELSE LET run == Head(runs)
             next ==
                 IF ~RunCounted(run, target, since) THEN st
                 ELSE IF run.conclusion = "success"
                 THEN [st EXCEPT !.count = @ + 1,
                                 !.durations = Append(@, [run |-> run.id,
                                                          seconds |-> run.updated_at - run.created_at])]
                 ELSE IF run.conclusion = "failure"
                 THEN [st EXCEPT !.count = @ + 1, !.failures = @ + 1]
                 ELSE [st EXCEPT !.count = @ + 1]
         IN CountRuns(next, Tail(runs), target, since)

\* lines 435-463: deployment_count, failure_count and the durations appended
\* for one repository that has an entry in specific_workflows.
DeploymentsOf(d, since, repo, target) ==
    CountRuns([count |-> 0, failures |-> 0, durations |-> <<>>],
              IF d.workflow_runs[repo].kind = "dict" THEN d.workflow_runs[repo].runs ELSE <<>>,
              target, since)

\* A rate computed without looking at the count.
FailureRateUnguarded(failures, count) == Ratio(failures * 100, count)

\* lines 486-490
FailureRate(failures, count) ==
    IF count > 0 THEN Ratio(failures * 100, count) ELSE Ratio(0, 1)

\* lines 470-490: the DORA entries of repo_detail.  Nothing is ever appended
\* to repo_deployment_recovery_times, so avg_recovery_time is 0.
DeploymentDetail(acc, repo) ==
    LET count == Get(acc.repo_deployment_counts, repo, 0)
        failures == Get(acc.repo_deployment_failures, repo, 0)
        durations == Get(acc.repo_deployment_durations, repo, <<>>)
    IN [deployment_count |-> count,
        deployment_failures |-> failures,
        avg_recovery_time |-> Ratio(0, 1),
        avg_deployment_duration |-> AverageOrZero(durations),
        deployment_durations_count |-> Len(durations),
        failure_rate |-> FailureRate(failures, count)]

\* lines 468-557 for one repository.  len(None) raises TypeError at line 475
\* or 476 and nothing catches it.
AnalyzeRepo(acc, d, since, repo) ==
    IF ~d.branches[repo].some \/ ~d.contributors[repo].some
    THEN [acc EXCEPT !.aborted = TRUE]
    ELSE LET detail == [name |-> repo,
                        branch_count |-> Len(d.branches[repo].val),
                        contributor_count |-> Len(d.contributors[repo].val),
                        dora |-> DeploymentDetail(acc, repo)]
             listed == [acc EXCEPT !.repo_details = Append(@, detail),
                                   !.repo_branch_to_merge_times = Put(@, repo, <<>>)]
         IN AnalyzePRs(AnalyzeCommits(listed, d, since, repo, d.commits[repo]),
                       d, since, repo, d.pull_requests[repo])

RECURSIVE AnalyzeRepos(_, _, _, _)
AnalyzeRepos(acc, d, since, i) ==
    IF i > Len(d.repos) \/ acc.aborted THEN acc
    ELSE AnalyzeRepos(AnalyzeRepo(acc, d, since, d.repos[i].name), d, since, i + 1)

\* lines 332-358, and the state before analyze_data is called.
NotAnalyzed ==
    [done |-> FALSE, aborted |-> FALSE, since |-> [sec |-> Since, micro |-> FALSE],
     commit_counts |-> EmptyDict, lines_added |-> EmptyDict, lines_deleted |-> EmptyDict,
     repos_worked_on |-> EmptyDict, repo_activity |-> EmptyDict, repo_details |-> <<>>,
     pr_counts |-> EmptyDict, pr_reviews |-> EmptyDict, pr_comments |-> EmptyDict,
     pr_merge_times |-> <<>>, branch_to_merge_times |-> <<>>,
     repo_branch_to_merge_times |-> EmptyDict,
     specific_workflows |-> EmptyDict, repo_deployment_counts |-> EmptyDict,
     repo_deployment_failures |-> EmptyDict, repo_deployment_durations |-> EmptyDict,
     df_developers |-> <<>>, df_repos |-> <<>>]

\* lines 360-557.  With no repository repo_details is empty, the frame of
\* line 611 has no column and df_repos['name'] raises KeyError at line 612.
Aggregate(d, since) ==
    LET repo_names == { d.repos[i].name : i \in 1..Len(d.repos) }
        specific == SpecificWorkflows(d, repo_names)
        Deployed(repo) == DeploymentsOf(d, since, repo, specific[repo])
        counted ==
            [NotAnalyzed EXCEPT
               !.since = since,
               !.specific_workflows = specific,
               !.repo_deployment_counts = [repo \in DOMAIN specific |-> Deployed(repo).count],
               !.repo_deployment_failures = [repo \in DOMAIN specific |-> Deployed(repo).failures],
               !.repo_deployment_durations =
                   [repo \in { r \in DOMAIN specific : Deployed(r).durations # <<>> } |->
                       Deployed(repo).durations],
               !.pr_reviews = PreCount(EmptyDict, d.pr_reviews,
                                       PreCountPairs(d.pr_reviews, repo_names), "reviews", since),
               !.pr_comments = PreCount(EmptyDict, d.pr_comments,
                                        PreCountPairs(d.pr_comments, repo_names), "comments", since)]
        looped == AnalyzeRepos(counted, d, since, 1)
    IN IF Len(d.repos) = 0 THEN [looped EXCEPT !.aborted = TRUE] ELSE looped

\* lines 591-600: one row for each key of the three counters.
DeveloperRows(acc) ==
    { [Developer |-> dev,
       Commits |-> Get(acc.commit_counts, dev, 0),
       LinesAdded |-> Get(acc.lines_added, dev, 0),
       LinesDeleted |-> Get(acc.lines_deleted, dev, 0),
       PRsOpened |-> Get(acc.pr_counts, dev, 0),
       PRsReviewed |-> Get(acc.pr_reviews, dev, 0),
       PRComments |-> Get(acc.pr_comments, dev, 0)] :
      dev \in DOMAIN acc.commit_counts \cup DOMAIN acc.pr_reviews \cup DOMAIN acc.pr_comments }

\* lines 573-579 and 605-612: the rows of repo_details with the columns added.
RepoRows(acc) ==
    { [name |-> acc.repo_details[i].name,
       Activity |-> Get(acc.repo_activity, acc.repo_details[i].name, 0),
       avg_branch_to_merge_time |->
           AverageOrZero(Get(acc.repo_branch_to_merge_times, acc.repo_details[i].name, <<>>)),
       branch_merges_count |->
           Len(Get(acc.repo_branch_to_merge_times, acc.repo_details[i].name, <<>>)),
       deployment_count |-> acc.repo_details[i].dora.deployment_count,
       failure_rate |-> acc.repo_details[i].dora.failure_rate,
       avg_recovery_time |-> acc.repo_details[i].dora.avg_recovery_time,
       avg_deployment_duration |-> acc.repo_details[i].dora.avg_deployment_duration,
       deployment_durations_count |-> acc.repo_details[i].dora.deployment_durations_count,
       branch_count |-> acc.repo_details[i].branch_count,
       contributor_count |-> acc.repo_details[i].contributor_count] :
      i \in 1..Len(acc.repo_details) }

\* sort_values(column, ascending=False), lines 602 and 616: the rows in an
\* order in which the column never increases; rows that tie come in any order.
Orderings(rows) ==
    { s \in [1..Cardinality(rows) -> rows] : \A i, j \in DOMAIN s : i # j => s[i] # s[j] }

\* A table left in the order of the set of logins.
ByCommitsUnsorted(rows) == Orderings(rows)

ByCommits(rows) ==
    { s \in Orderings(rows) : \A i, j \in DOMAIN s : i < j => s[i].Commits >= s[j].Commits }

ByActivity(rows) ==
    { s \in Orderings(rows) : \A i, j \in DOMAIN s : i < j => s[i].Activity >= s[j].Activity }

\* main calls analyze_data(data, since), line 783, with the since of line 781.
Analyze ==
    /\ fd_pc \in {"saved", "cached"}
    /\ \E since \in SinceValues :
        LET acc == Aggregate(data, since) IN
        IF acc.aborted
        THEN an' = [NotAnalyzed EXCEPT !.done = TRUE, !.aborted = TRUE, !.since = since]
        ELSE \E devs \in ByCommits(DeveloperRows(acc)), repos \in ByActivity(RepoRows(acc)) :
                an' = [acc EXCEPT !.done = TRUE, !.df_developers = devs, !.df_repos = repos]
    /\ fd_pc' = "analyzed"
    /\ UNCHANGED <<fd_i, fd_j, world, data, requests, failed>>
    /\ UNCHANGED <<fetcherVars, collectorVars, orgReposVars, cacheVars>>

---------------------------------------------------------------------------
(* Claims about make_request *)

\* The claims' "rate-limit-exhausted 403": a 403 whose rate-limit-remaining
\* header is 0.
RateLimitExhausted(r) == r.kind = "http" /\ r.status = 403 /\ r.remaining = 0

\* C1: make_request never returns on a rate-limit-exhausted 403: each such
\* response is followed by a sleep and another GET of the same url, however
\* many arrive in a row, and the call returns exactly on the first response
\* that is not rate-limit-exhausted.
C1_RateLimitAlwaysRetried ==
    /\ \A i \in 1..Len(mr_requests) : mr_requests[i] = mr_url
    /\ \A i \in 1..Len(mr_responses) :
          (i < Len(mr_responses)) => RateLimitExhausted(mr_responses[i])
    /\ (mr_pc = "returned") =>
          /\ Len(mr_responses) >= 1
          /\ ~RateLimitExhausted(mr_responses[Len(mr_responses)])
          /\ Len(mr_requests) = Len(mr_responses)
          /\ Len(mr_slept) = Len(mr_responses) - 1
    /\ (mr_pc = "request") =>
          /\ \A i \in 1..Len(mr_responses) : RateLimitExhausted(mr_responses[i])
          /\ Len(mr_requests) = Len(mr_responses)
          /\ Len(mr_slept) = Len(mr_responses)
    /\ (mr_pc = "sleep") =>
          /\ \A i \in 1..Len(mr_responses) : RateLimitExhausted(mr_responses[i])
          /\ Len(mr_requests) = Len(mr_responses)
          /\ Len(mr_slept) = Len(mr_responses) - 1

C1_Witness ==
    /\ mr_pc = "returned"
    /\ Len(mr_responses) = MaxRateLimited + 1
    /\ \A i \in 1..MaxRateLimited : RateLimitExhausted(mr_responses[i])
    /\ mr_responses[1].perm

\* C2: make_request retries if and only if the response is a
\* rate-limit-exhausted 403; otherwise a permission-denied 403, a 404, any
\* other non-200 status and a network exception each end the call with None
\* after that one attempt, with no further request for the url.
TerminalFailure(r) ==
    ~RateLimitExhausted(r) /\ (r.kind = "exc" \/ r.status # 200)

C2_RetryOnlyOnRateLimit ==
    \A i \in 1..Len(mr_responses) :
        /\ (i < Len(mr_requests) \/ mr_pc \in {"sleep", "request"})
              <=> RateLimitExhausted(mr_responses[i])
        /\ TerminalFailure(mr_responses[i]) =>
              /\ i = Len(mr_responses)
              /\ Len(mr_requests) = i
              /\ mr_pc = "returned"
              /\ mr_result = None

C2_Witness ==
    /\ mr_pc = "returned"
    /\ Len(mr_requests) = 1
    /\ mr_responses[1].kind = "exc"
    /\ mr_result = None

\* C19: every rate-limit sleep of make_request lasts at least 1 second,
\* whatever the reset time reported, one in the past included: the i-th
\* sleep follows the i-th rate-limited response and is the time left to its
\* reset plus 1, or 1 second when that is less.
C19_SleepAtLeastOneSecond ==
    \A i \in 1..Len(mr_slept) :
        /\ mr_slept[i] >= 1
        /\ i <= Len(mr_responses)
        /\ mr_responses[i].status = 403
        /\ mr_responses[i].remaining = 0
        /\ mr_slept[i] = (IF mr_responses[i].reset_in + 1 > 1
                          THEN mr_responses[i].reset_in + 1 ELSE 1)

C19_Witness ==
    /\ Len(mr_slept) = 2
    /\ mr_responses[1].reset_in = -3
    /\ mr_slept[1] = 1
    /\ mr_responses[2].reset_in = 2
    /\ mr_slept[2] = 3

---------------------------------------------------------------------------
(* Claims about the paginated collectors *)

RECURSIVE ConcatPages(_)
ConcatPages(pages) ==
    IF pages = <<>> THEN <<>>
    ELSE LET last == pages[Len(pages)] IN
         ConcatPages(SubSeq(pages, 1, Len(pages) - 1))
            \o (IF last.some THEN last.val ELSE <<>>)

FullPage(resp) == resp.some /\ Len(resp.val) = 100

\* C4: get_commits and get_pull_requests request pages 1, 2, 3, ... in order,
\* none skipped or repeated, stop at the first page that is null, empty or
\* shorter than 100 items, and return the items of all fetched pages
\* concatenated in page order.
C4_PagesInOrderUntilShort ==
    /\ col_requests = [i \in 1..Len(col_requests) |-> i]
    /\ Len(col_pages) = Len(col_requests)
    /\ \A i \in 1..Len(col_pages) :
          FullPage(col_pages[i]) <=> (i < Len(col_pages) \/ ~col_st.done)
    /\ col_st.done => Len(col_pages) >= 1
    /\ col_st.items = ConcatPages(col_pages)

C4_Witness ==
    /\ col_kind = "pulls"
    /\ col_st.done
    /\ Len(col_pages) = 3
    /\ col_pages[3].some
    /\ Len(col_pages[3].val) = 1
    /\ Len(col_st.items) = 2 * PerPage + 1

---------------------------------------------------------------------------
(* Claims about get_org_repos *)

\* The repositories of the fetched pages that were pushed at or after the
\* cutoff, in the order the pages delivered them.
RecentOf(pages, since) ==
    LET AtOrAfter(r) == r.pushed_at >= since IN SelectSeq(ConcatPages(pages), AtOrAfter)

---------------------------------------------------------------------------
(* Claims about the cache *)

\* The claim as stated: load_cache(org) returns None when nothing was saved
\* for org, and otherwise a structure equal to the snapshot last saved.
C8_LoadEqualsSaved ==
    ld.called =>
        IF saved[ld.org].some THEN ld.result = Some(saved[ld.org].val)
        ELSE ld.result = None

\* The dict read back for a dict with int keys: the same values under the
\* decimal strings of the keys.
SameUnderStrKeys(read, written) ==
    /\ DOMAIN read = { StrKey(k.n) : k \in DOMAIN written }
    /\ \A k \in DOMAIN written : read[StrKey(k.n)] = written[k]

IntKeyed == {"pr_reviews", "pr_comments", "workflow_run_details"}

\* C8 (amended): load_cache(org) returns None when no cache was saved for
\* org, and otherwise the snapshot last saved with the int keys of its
\* per-repository maps (PR numbers, workflow run ids) replaced by their
\* decimal strings; everything else is equal.
C8_LoadEqualsSavedUpToKeys ==
    ld.called =>
        IF ~saved[ld.org].some THEN ld.result = None
        ELSE LET s == saved[ld.org].val IN
             /\ ld.result.some
             /\ LET r == ld.result.val IN
                /\ DOMAIN r = DOMAIN s
                /\ \A f \in DOMAIN s \ IntKeyed : r[f] = s[f]
                /\ \A f \in IntKeyed :
                      /\ DOMAIN r[f] = DOMAIN s[f]
                      /\ \A repo \in DOMAIN s[f] : SameUnderStrKeys(r[f][repo], s[f][repo])

C8_Witness ==
    /\ ld.called
    /\ saved[ld.org].some
    /\ ld.result.some
    /\ \E repo \in DOMAIN saved[ld.org].val.pr_reviews :
          /\ DOMAIN saved[ld.org].val.pr_reviews[repo] # {}
          /\ DOMAIN saved[ld.org].val.workflow_run_details[repo] # {}

---------------------------------------------------------------------------
(* Claims about fetch_data and analyze_data *)

\* The target repositories among the answers: those named in the target
\* list and pushed at or after the cutoff, in the order of the pages.
TargetsOf(pages, since, target) ==
    LET Wanted(r) == r.name \in target /\ r.pushed_at >= since
    IN SelectSeq(ConcatPages(pages), Wanted)

FetchStarted == fd_pc \notin {"idle", "org"}

FetchEnded == fd_pc \in {"fetched", "saved", "analyzed"}

C3_NullResourceNeverAborts ==
    (an.done /\ Len(data.repos) > 0) =>
        /\ ~an.aborted
        /\ { an.df_repos[i].name : i \in 1..Len(an.df_repos) } = Names(data.repos)

\* C7 as stated: when fetch_data has ended, for every closed PR with
\* merged_at set, a branch lookup for its head ref was requested only if an
\* open PR of the repository has that head ref, and the branch_first_commits
\* entry of its head ref is the placeholder dated with its own created_at.
C7_MergedPRPlaceholder ==
    FetchEnded =>
        \A repo \in DOMAIN data.pull_requests :
            \A i \in 1..Len(data.pull_requests[repo]) :
                LET pr == data.pull_requests[repo][i]
                    prs == data.pull_requests[repo]
                IN (pr.state = "closed" /\ pr.merged_at.some) =>
                     /\ Req("branch", repo, pr.head_ref) \in requests =>
                           \E j \in 1..Len(prs) :
                               prs[j].state = "open" /\ prs[j].head_ref = pr.head_ref
                     /\ pr.head_ref \in DOMAIN data.branch_first_commits[repo]
                     /\ data.branch_first_commits[repo][pr.head_ref]
                            = Some([placeholder |-> TRUE, date |-> pr.created_at])

\* The commits of the snapshot by login dated in or after the second of
\* since, as places <<repository, index>>.
CommitsSince(login) ==
    UNION { { <<data.repos[i].name, j>> :
                j \in { k \in 1..Len(data.commits[data.repos[i].name]) :
                          LET commit == data.commits[data.repos[i].name][k]
                          IN commit.date >= an.since.sec /\ commit.author = Some(login) } } :
            i \in 1..Len(data.repos) }

C10_MergeSamplesWithinWindow ==
    (an.done /\ ~an.aborted) =>
        /\ \A k \in 1..Len(an.pr_merge_times) :
              LET s == an.pr_merge_times[k] IN
              /\ s.repo \in DOMAIN data.pull_requests
              /\ \E i \in 1..Len(data.pull_requests[s.repo]) :
                    LET pr == data.pull_requests[s.repo][i] IN
                    /\ pr.number = s.number
                    /\ pr.merged_at.some
                    /\ pr.created_at >= an.since.sec
                    /\ pr.merged_at.val >= an.since.sec
                    /\ s.seconds = pr.merged_at.val - pr.created_at
                    /\ s.seconds <= 720 * 3600
        /\ \A repo \in DOMAIN data.pull_requests :
              \A i \in 1..Len(data.pull_requests[repo]) :
                  LET pr == data.pull_requests[repo][i] IN
                  (pr.merged_at.some /\ pr.merged_at.val - pr.created_at > 720 * 3600) =>
                      \A k \in 1..Len(an.pr_merge_times) :
                          ~(an.pr_merge_times[k].repo = repo
                            /\ an.pr_merge_times[k].number = pr.number)

C10_Witness ==
    /\ an.done
    /\ ~an.aborted
    /\ \E k \in 1..Len(an.pr_merge_times) :
          an.pr_merge_times[k].seconds = 720 * 3600 /\ an.pr_merge_times[k].repo = 1

\* The sample was computed from a merged PR of its repository whose head ref
\* has a branch_first_commits entry with a date: it is merged_at minus that
\* date, and at most 2160 hours.
FromResolvedBranch(s) ==
    /\ s.repo \in DOMAIN data.pull_requests
    /\ s.repo \in DOMAIN data.branch_first_commits
    /\ \E i \in 1..Len(data.pull_requests[s.repo]) :
          LET pr == data.pull_requests[s.repo][i]
              firsts == data.branch_first_commits[s.repo]
          IN /\ pr.number = s.number
             /\ pr.merged_at.some
             /\ pr.head_ref \in DOMAIN firsts
             /\ firsts[pr.head_ref].some
             /\ s.seconds = pr.merged_at.val - firsts[pr.head_ref].val.date
             /\ s.seconds <= 2160 * 3600

\* The samples of the overall list that belong to one repository.
BranchSamplesOf(repo) ==
    LET OfRepo(s) == s.repo = repo IN SelectSeq(an.branch_to_merge_times, OfRepo)

\* C11: every branch-to-merge sample, in the overall list and in the list of
\* its repository, comes from a merged PR whose head ref has a
\* branch_first_commits entry with a date and is at most 2160 hours; the
\* count and the average of a repository's row are those of its samples
\* alone, so any other PR adds nothing to them.
C11_BranchSamplesResolved ==
    (an.done /\ ~an.aborted) =>
        /\ \A k \in 1..Len(an.branch_to_merge_times) :
              FromResolvedBranch(an.branch_to_merge_times[k])
        /\ \A repo \in DOMAIN an.repo_branch_to_merge_times :
              an.repo_branch_to_merge_times[repo] = BranchSamplesOf(repo)
        /\ \A i \in 1..Len(an.df_repos) :
              LET row == an.df_repos[i]
                  mine == BranchSamplesOf(row.name)
              IN /\ row.branch_merges_count = Len(mine)
                 /\ row.avg_branch_to_merge_time.num * Len(mine)
                        = SumSeconds(mine) * row.avg_branch_to_merge_time.den
                 /\ Len(mine) = 0 => row.avg_branch_to_merge_time.num = 0

C11_Witness ==
    /\ an.done
    /\ ~an.aborted
    /\ world.first = "2160h1s"
    /\ an.since.micro
    /\ Len(an.branch_to_merge_times) = 1
    /\ an.branch_to_merge_times[1].repo = 2
    /\ \E i \in 1..Len(an.df_repos) :
          an.df_repos[i].name = 1 /\ an.df_repos[i].branch_merges_count = 0

\* The instant t, a whole second, is at or after the instant since: after
\* its second, or in its second when since has no fraction of a second.
AtOrAfter(t, since) == t > since.sec \/ (t = since.sec /\ ~since.micro)

\* The PRs of the repositories of the snapshot's repo list whose author has
\* the login and that were created or updated at or after since, as places
\* <<repository, index>>.
PRsOpenedSince(login) ==
    UNION { { <<data.repos[i].name, j>> :
                j \in { k \in 1..Len(data.pull_requests[data.repos[i].name]) :
                          LET pr == data.pull_requests[data.repos[i].name][k]
                          IN /\ pr.user = Some(login)
                             /\ \/ AtOrAfter(pr.created_at, an.since)
                                \/ AtOrAfter(pr.updated_at, an.since) } } :
            i \in 1..Len(data.repos) }

\* C12: the PRs-opened count of a login is the number of PRs that belong to
\* a repository of the snapshot's repo list, have that author login and were
\* created or updated at or after since: each such PR adds 1 and no other PR
\* adds anything.
C12_PRsOpenedCount ==
    (an.done /\ ~an.aborted) =>
        /\ DOMAIN an.pr_counts \subseteq Logins
        /\ \A login \in Logins :
              /\ Get(an.pr_counts, login, 0) = Cardinality(PRsOpenedSince(login))
              /\ \A i \in 1..Len(an.df_developers) :
                    an.df_developers[i].Developer = login =>
                        an.df_developers[i].PRsOpened = Cardinality(PRsOpenedSince(login))

C12_Witness ==
    /\ an.done
    /\ ~an.aborted
    /\ an.since.micro
    /\ world.q = "merged_same_ref"
    /\ Len(data.repos) = 2
    /\ world.p.created = an.since.sec
    /\ world.p.fate = "closed"
    /\ an.pr_counts = Put(EmptyDict, "bob", 1)

\* The reviews (kind "reviews") or comments (kind "comments") of the
\* snapshot, in the repositories of its repo list, by the login and dated at
\* or after since, as places <<repository, PR key, index>>.
EntriesSince(kind, login) ==
    LET dict == IF kind = "reviews" THEN data.pr_reviews ELSE data.pr_comments
        At(e) == IF kind = "reviews" THEN e.submitted_at ELSE e.created_at
    IN UNION { UNION { { <<repo, key, j>> :
                           j \in { k \in 1..(IF dict[repo][key].some
                                             THEN Len(dict[repo][key].val) ELSE 0) :
                                     LET e == dict[repo][key].val[k]
                                     IN e.user = Some(login) /\ AtOrAfter(At(e), an.since) } } :
                       key \in DOMAIN dict[repo] } :
               repo \in DOMAIN dict \cap Names(data.repos) }

\* The PR of a repository stored under a key of pr_reviews or pr_comments
\* passes the filter of the PRs-opened count.
OwningPRCounted(repo, key) ==
    \E i \in 1..Len(data.pull_requests[repo]) :
        LET pr == data.pull_requests[repo][i] IN
        /\ pr.number = key.n
        /\ pr.user.some
        /\ AtOrAfter(pr.created_at, an.since) \/ AtOrAfter(pr.updated_at, an.since)

\* C13: the PRs-reviewed (PR-comments) count of a login is the number of
\* reviews (comments) in the repositories of the snapshot's repo list that
\* have that user login and are dated at or after since, whether or not the
\* PR they belong to passes the PR filter; the developer table shows these
\* counts.
C13_ReviewAndCommentCounts ==
    (an.done /\ ~an.aborted) =>
        /\ DOMAIN an.pr_reviews \cup DOMAIN an.pr_comments \subseteq Logins
        /\ \A login \in Logins :
              /\ Get(an.pr_reviews, login, 0) = Cardinality(EntriesSince("reviews", login))
              /\ Get(an.pr_comments, login, 0) = Cardinality(EntriesSince("comments", login))
              /\ \A i \in 1..Len(an.df_developers) :
                    an.df_developers[i].Developer = login =>
                        /\ an.df_developers[i].PRsReviewed = Get(an.pr_reviews, login, 0)
                        /\ an.df_developers[i].PRComments = Get(an.pr_comments, login, 0)

C13_Witness ==
    /\ an.done
    /\ ~an.aborted
    /\ Len(data.repos) = 2
    /\ \E e \in EntriesSince("reviews", "bob") : ~OwningPRCounted(e[1], e[2])
    /\ Get(an.pr_reviews, "bob", 0) = 1
    /\ "alice" \notin DOMAIN an.pr_reviews
    /\ Get(an.pr_comments, "bob", 0) >= 1

\* C17: the developer table has exactly one row for each login that is a key
\* of the commit, review or comment counter and no other row; each row
\* carries the counters of its login (0 for a counter without the login);
\* the rows are in non-increasing order of commit count.
C17_DeveloperTableRows ==
    (an.done /\ ~an.aborted) =>
        LET t == an.df_developers
            keys == DOMAIN an.commit_counts \cup DOMAIN an.pr_reviews \cup DOMAIN an.pr_comments
        IN /\ { t[i].Developer : i \in 1..Len(t) } = keys
           /\ Len(t) = Cardinality(keys)
           /\ \A i \in 1..Len(t) :
                 /\ t[i].Commits = Get(an.commit_counts, t[i].Developer, 0)
                 /\ t[i].LinesAdded = Get(an.lines_added, t[i].Developer, 0)
                 /\ t[i].LinesDeleted = Get(an.lines_deleted, t[i].Developer, 0)
                 /\ t[i].PRsOpened = Get(an.pr_counts, t[i].Developer, 0)
                 /\ t[i].PRsReviewed = Get(an.pr_reviews, t[i].Developer, 0)
                 /\ t[i].PRComments = Get(an.pr_comments, t[i].Developer, 0)
           /\ \A i \in 1..(Len(t) - 1) : t[i].Commits >= t[i + 1].Commits

C17_Witness ==
    /\ an.done
    /\ ~an.aborted
    /\ Len(an.df_developers) = 2
    /\ an.df_developers[1].Developer = "alice"
    /\ an.df_developers[1].Commits = 3
    /\ an.df_developers[2].Developer = "bob"
    /\ an.df_developers[2].Commits = 0
    /\ an.df_developers[2].PRsReviewed = 1
    /\ "bob" \notin DOMAIN an.commit_counts

\* Every PR of the snapshot that was merged was merged at or after its
\* creation.
MergedAfterCreated ==
    \A repo \in DOMAIN data.pull_requests :
        \A i \in 1..Len(data.pull_requests[repo]) :
            LET pr == data.pull_requests[repo][i]
            IN pr.merged_at.some => pr.merged_at.val >= pr.created_at

\* C21 as stated: on a snapshot of fetch_data in which every merged PR has
\* merged_at at or after created_at, no branch-to-merge sample of
\* analyze_data, in the overall list or in the list of a repository, is
\* negative, whether or not several PRs of a repository share a head ref.
C21_BranchSamplesNotNegative ==
    (an.done /\ ~an.aborted /\ MergedAfterCreated) =>
        /\ \A k \in 1..Len(an.branch_to_merge_times) :
              an.branch_to_merge_times[k].seconds >= 0
        /\ \A repo \in DOMAIN an.repo_branch_to_merge_times :
              \A k \in 1..Len(an.repo_branch_to_merge_times[repo]) :
                  an.repo_branch_to_merge_times[repo][k].seconds >= 0

---------------------------------------------------------------------------
(* Claims about the deployment metrics *)

\* The workflow runs the snapshot holds for a repository.
RunsOf(repo) ==
    IF repo \in DOMAIN data.workflow_runs /\ data.workflow_runs[repo].kind = "dict"
    THEN data.workflow_runs[repo].runs ELSE <<>>

\* The lower-cased names of the runs of a repository, as a set, and how
\* often each occurs.
RunNames(repo) ==
    { Lower(RunsOf(repo)[i].name) : i \in { k \in 1..Len(RunsOf(repo)) : RunsOf(repo)[k].name # "" } }

Occurrences(repo, name) ==
    Cardinality({ i \in 1..Len(RunsOf(repo)) : Lower(RunsOf(repo)[i].name) = name })

\* Of the lower-cased names of the worlds, those that contain ci, test,
\* build or deploy.
WithCIWord == {"ci", "deploy"}

\* C15: the workflow inferred for a repository is a most frequent lower-cased
\* run name among those that contain ci, test, build or deploy; when no name
\* contains one, a most frequent run name overall; a repository without
\* workflow runs gets no workflow, and its deployment count and failures are
\* 0.
C15_InferredWorkflow ==
    (an.done /\ ~an.aborted) =>
        \A repo \in Names(data.repos) :
            LET qualifying == RunNames(repo) \cap WithCIWord
                pool == IF qualifying # {} THEN qualifying ELSE RunNames(repo)
            IN /\ repo \in DOMAIN an.specific_workflows <=> pool # {}
               /\ repo \in DOMAIN an.specific_workflows =>
                     /\ an.specific_workflows[repo] \in pool
                     /\ \A n \in pool :
                           Occurrences(repo, an.specific_workflows[repo]) >= Occurrences(repo, n)
               /\ Len(RunsOf(repo)) = 0 =>
                     /\ repo \notin DOMAIN an.specific_workflows
                     /\ \A i \in 1..Len(an.repo_details) :
                           an.repo_details[i].name = repo =>
                               /\ an.repo_details[i].dora.deployment_count = 0
                               /\ an.repo_details[i].dora.deployment_failures = 0

C15_Witness ==
    /\ an.done
    /\ ~an.aborted
    /\ world.runs = "mixed"
    /\ Names(data.repos) = {1, 2}
    /\ Occurrences(1, "lint") = 3
    /\ an.specific_workflows = Put(EmptyDict, 1, "ci")

\* The runs of a repository that the claims count as deployment attempts:
\* the completed runs of the inferred workflow created at or after since.
CompletedAttempts(repo) ==
    { i \in 1..Len(RunsOf(repo)) :
        /\ repo \in DOMAIN an.specific_workflows
        /\ Lower(RunsOf(repo)[i].name) = an.specific_workflows[repo]
        /\ RunsOf(repo)[i].status = "completed"
        /\ AtOrAfter(RunsOf(repo)[i].created_at, an.since) }

\* C14 as stated: for each repository the deployment count is the number of
\* completed runs of the inferred workflow created at or after since; each of
\* them that succeeded gives one duration sample, updated_at minus
\* created_at, and each that failed adds 1 to the failures.
C14_DeploymentAttempts ==
    (an.done /\ ~an.aborted) =>
        \A repo \in Names(data.repos) :
            LET runs == RunsOf(repo)
                durations == Get(an.repo_deployment_durations, repo, <<>>)
            IN /\ Get(an.repo_deployment_counts, repo, 0) = Cardinality(CompletedAttempts(repo))
               /\ Get(an.repo_deployment_failures, repo, 0)
                     = Cardinality({ i \in CompletedAttempts(repo) : runs[i].conclusion = "failure" })
               /\ Len(durations)
                     = Cardinality({ i \in CompletedAttempts(repo) : runs[i].conclusion = "success" })
               /\ \A k \in 1..Len(durations) :
                     \E i \in CompletedAttempts(repo) :
                         /\ runs[i].id = durations[k].run
                         /\ runs[i].conclusion = "success"
                         /\ durations[k].seconds = runs[i].updated_at - runs[i].created_at

\* C16 as stated: for a repository with no workflow run the repository table
\* reports 0 deployment attempts and a failure rate of 0, and its average
\* deployment duration is not the number 0.
C16_NoRunsNoData ==
    (an.done /\ ~an.aborted) =>
        \A i \in 1..Len(an.df_repos) :
            Len(RunsOf(an.df_repos[i].name)) = 0 =>
                /\ an.df_repos[i].deployment_count = 0
                /\ an.df_repos[i].failure_rate.num = 0
                /\ an.df_repos[i].avg_deployment_duration.num # 0

\* C18: for every repository of the repository table the failure rate is 0
\* when the deployment count is 0 and failures / count * 100 otherwise, and
\* it is never a quotient by zero.
C18_FailureRate ==
    (an.done /\ ~an.aborted) =>
        \A i \in 1..Len(an.df_repos) :
            LET row == an.df_repos[i]
                failures == Get(an.repo_deployment_failures, row.name, 0)
            IN /\ row.failure_rate.den # 0
               /\ row.deployment_count = Get(an.repo_deployment_counts, row.name, 0)
               /\ row.deployment_count = 0 => row.failure_rate.num = 0
               /\ row.deployment_count > 0 =>
                     row.failure_rate.num * row.deployment_count
                         = failures * 100 * row.failure_rate.den

C18_Witness ==
    /\ an.done
    /\ ~an.aborted
    /\ world.runs = "all_done"
    /\ \E i, j \in 1..Len(an.df_repos) :
          /\ an.df_repos[i].deployment_count = 2
          /\ an.df_repos[i].failure_rate = Ratio(100, 2)
          /\ an.df_repos[j].deployment_count = 0
          /\ an.df_repos[j].failure_rate = Ratio(0, 1)

---------------------------------------------------------------------------
(* Claims about main *)

\* The cache file holds the snapshot s and nothing else: the fields of s
\* with their values, the int keys of the per-repository maps written as
\* their decimal strings.
HoldsSnapshot(file, s) ==
    /\ DOMAIN file = DOMAIN s
    /\ \A f \in DOMAIN s \ IntKeyed : file[f] = s[f]
    /\ \A f \in IntKeyed :
          /\ DOMAIN file[f] = DOMAIN s[f]
          /\ \A repo \in DOMAIN s[f] : SameUnderStrKeys(file[f][repo], s[f][repo])

\* The condition the claim gives for a fetch, on the flags of the call and
\* the cache file main found.
MustFetch == mn.update_cache \/ ~mn.use_cache \/ ~mn.old.some

RequestsIssued == or_requests # <<>> \/ requests # {}

\* C20: main fetches from the network if and only if update_cache is set,
\* or use_cache is not set, or there is no cache for the organization; a
\* run that fetched has the whole new snapshot, and only it, in the cache
\* file once save_cache is done and when the analysis is done; a run from
\* the cache issues no request and leaves the cache file as it found it.
C20_CachePolicy ==
    mn.called =>
        /\ fd_pc = "cached" => ~MustFetch
        /\ fd_pc \notin {"cached", "analyzed"} => MustFetch
        /\ fd_pc \in {"saved", "cached", "analyzed"} => (RequestsIssued <=> MustFetch)
        /\ (MustFetch /\ fd_pc \in {"saved", "analyzed"}) =>
              /\ cache["o1"].some
              /\ HoldsSnapshot(cache["o1"].val, data)
        /\ (MustFetch /\ fd_pc \notin {"saved", "analyzed"}) => ~an.done
        /\ ~MustFetch =>
              /\ ~RequestsIssued
              /\ cache["o1"] = mn.old
              /\ data = FilterRepos(ld.result.val, world.target)

\* A run from the cache that analysed the snapshot it found, cut to its
\* target list.
RanFromCache ==
    /\ mn.called
    /\ mn.use_cache
    /\ ~mn.update_cache
    /\ mn.old.some
    /\ an.done
    /\ ~RequestsIssued
    /\ Len(data.repos) > 0
    /\ Len(data.repos) < Len(mn.old.val.repos)

\* A run that found a cache, was told to use it and to update it, and
\* analysed a snapshot other than the one it found, now in the cache file.
C20_Witness ==
    /\ mn.called
    /\ mn.use_cache
    /\ mn.update_cache
    /\ mn.old.some
    /\ an.done
    /\ RequestsIssued
    /\ cache["o1"] # mn.old
    /\ Len(data.repos) > 0

---------------------------------------------------------------------------
(* Specifications *)

\* Nothing has been called yet.
Init ==
    /\ mr_pc = "idle"
    /\ mr_url = "u1"
    /\ mr_requests = <<>>
    /\ mr_responses = <<>>
    /\ mr_slept = <<>>
    /\ mr_result = None
    /\ col_kind = "idle"
    /\ col_repo = 1
    /\ col_st = CollectorStart
    /\ col_requests = <<>>
    /\ col_pages = <<>>
    /\ or_pc = "idle"
    /\ or_world = NoOrg
    /\ or_args = [since |-> Since, target |-> None]
    /\ or_st = OrgReposStart(None)
    /\ or_requests = <<>>
    /\ or_pages = <<>>
    /\ or_warning = None
    /\ or_result = <<>>
    /\ fd_pc = "idle"
    /\ fd_i = 0
    /\ fd_j = 0
    /\ world = DefaultWorld
    /\ data = EmptyData
    /\ requests = {}
    /\ failed = 0
    /\ cache = [o \in Orgs |-> None]
    /\ saved = [o \in Orgs |-> None]
    /\ ld = [called |-> FALSE, org |-> "o1", result |-> None]
    /\ mn = NotCalled
    /\ an = NotAnalyzed

FetcherNext ==
    \/ MakeRequestCall
    \/ MakeRequestAttempt
    \/ MakeRequestSleep

SpecFetcher == Init /\ [][FetcherNext]_vars

CollectorNext ==
    \/ CollectorCall
    \/ CollectorPage

SpecCollector == Init /\ [][CollectorNext]_vars

OrgReposNext ==
    \/ OrgReposCall
    \/ OrgReposPage

SpecOrgRepos == Init /\ [][OrgReposNext]_vars

PipelineNext ==
    \/ FetchDataCall
    \/ OrgReposPage
    \/ FetchDataRepos
    \/ FetchDataCommits
    \/ FetchDataLists
    \/ FetchDataDora
    \/ FetchDataPR
    \/ SaveCache
    \/ LoadCache
    \/ EarlierRun
    \/ MainFromCache
    \/ Analyze

SpecPipeline == Init /\ [][PipelineNext]_vars

====
